---- MODULE Spec2Model ----
(***************************************************************************)
(* hog4midictrl: bridge between an APC Mini control surface (MIDI) and a   *)
(* Hog4 lighting console (OSC over UDP).                                   *)
(*                                                                         *)
(* The model follows main(): Mapping::apc_mini() builds the registry loop  *)
(* iteration by loop iteration, Mapper::new connects the two producers,    *)
(* all_midi_off sets every lamp to its rest state and start() is the       *)
(* router loop that takes one message at a time from the mpsc channel.     *)
(*                                                                         *)
(* Strings are TLA+ strings; u8 values are integers 0..255; an f32 is the  *)
(* pair [num, den] (den = 0 for the non-finite values); an Option is a     *)
(* sequence of length 0 (None) or 1 (Some).                                *)
(***************************************************************************)
EXTENDS Integers, Sequences, FiniteSets, TLC

VARIABLES
    pc,          \* position of the main thread
    x, y, i,     \* loop counters of apc_mini()
    mapping,     \* the Mapping under construction / owned by the Mapper
    queue,       \* contents of the mpsc channel
    produced,    \* number of inputs (surface events, datagrams) taken so far
    msg,         \* the message start() received last
    midi_sent,   \* every LiveEvent handed to midi_out.send, in order
    osc_sent,    \* every OscMessage handed to osc_out.send_to, in order
    stdout,      \* every line printed after Mapper::new, in order
    surface,     \* every LiveEvent the midir callback was called with, in order
    network,     \* every result of recv_from and decode_udp, in order
    received,    \* every message start() has received, in order
    pending,     \* messages of the current packet handle_osc_packet has yet to send
    listening,   \* the loop of listen_osc is running
    send_failed  \* a send on an output has returned Err

vars == <<pc, x, y, i, mapping, queue, produced, msg, midi_sent, osc_sent, stdout,
          surface, network, received, pending, listening, send_failed>>

\* the state of the producers and of the outputs' error record
io == <<surface, network, received, pending, listening, send_failed>>

(***************************************************************************)
(* Bounds of the model.                                                    *)
(***************************************************************************)
\* total number of inputs the two producers take in one run: calls of the
\* midir callback and datagrams of the listener
MaxEvents == 2

(***************************************************************************)
(* mapping.rs                                                              *)
(***************************************************************************)
ButtonMapping(name, note, on, off) ==
    [name |-> name, note |-> note, vel_on |-> on, vel_off |-> off]

ControlMapping(name, id) == [name |-> name, id |-> id]

\* Option<T>
None == <<>>
Some(v) == <<v>>

\* Iterator::find: the first element of seq among the positions `hits`
\* (those that satisfy the predicate)
Find(seq, hits) ==
    IF hits = {} THEN None
    ELSE Some(seq[CHOOSE k \in hits : \A j \in hits : k <= j])

button_from_name(m, name) ==
    Find(m.button_mappings,
         {k \in 1..Len(m.button_mappings) : m.button_mappings[k].name = name})

controller_from_id(m, id) ==
    Find(m.control_mappings,
         {k \in 1..Len(m.control_mappings) : m.control_mappings[k].id = id})

button_from_note(m, note) ==
    Find(m.button_mappings,
         {k \in 1..Len(m.button_mappings) : m.button_mappings[k].note = note})

\* the layout, top row first
button_matrix ==
    << <<"nextpage", "", "", "", "ewheelbutton/1", "ewheelbutton/2", "ewheelbutton/3", "ewheelbutton/4">>,
       <<"grandmaster", "", "", "", "intensity", "position", "colour", "beam">>,
       <<"mainchoose", "live", "scene", "cue", "effect", "time", "group", "fixture">>,
       <<"assert", "macro", "list", "page", "backspace", "slash", "minus", "plus">>,
       <<"release", "delete", "move", "copy", "seven", "eight", "nine", "thru">>,
       <<"mainback", "update", "merge", "record", "four", "five", "six", "full">>,
       <<"mainhalt", "setup", "goto", "set", "one", "two", "three", "at">>,
       <<"maingo", "pig", "fan", "open", "zero", "dot", "enter", "enter">> >>

\* vel_off with the upper rows of columns 1..3 starting one row too low
vel_off_low(cx, cy) ==
    IF cx >= 1 /\ cx < 4 /\ (cy < 2 \/ cy >= 3) THEN 5
    ELSE IF cx >= 4 /\ (cy < 5 \/ cy = 7) THEN 5
    ELSE 3

\* the closure vel_off: cx and cy count from bottom left
vel_off(cx, cy) ==
    IF cx >= 1 /\ cx < 4 /\ (cy < 2 \/ cy >= 4) THEN 5
    ELSE IF cx >= 4 /\ (cy < 5 \/ cy = 7) THEN 5
    ELSE 3

\* u8 arithmetic of the note computations (no overflow for the loop ranges)
U8(n) == n % 256

\* GridNote with column and row exchanged
GridNote_swapped(cx, cy) == U8(8 * cx + cy)

GridNote(cx, cy) == U8(8 * cy + cx)

\* the cell of the layout that grid position (cx, cy) reads
GridName(cx, cy) == button_matrix[(7 - cy) + 1][cx + 1]

\* one iteration of the grid loop body
GridCell(m, cx, cy) ==
    LET name == GridName(cx, cy)
    IN  IF name = "" THEN m
        ELSE [m EXCEPT !.button_mappings =
                Append(@, ButtonMapping(name, GridNote(cx, cy), 127, vel_off(cx, cy)))]

right_column == <<"highlight", "blind", "clear", "back", "all", "next", "", "">>

RightNote(cy) == U8(82 + cy)

\* one iteration of the right-column loop body
RightCell(m, cy) ==
    LET name == right_column[cy + 1]
    IN  IF name = "" THEN m
        ELSE [m EXCEPT !.button_mappings =
                Append(@, ButtonMapping(name, RightNote(cy), 127, 0))]

\* ChooseNote numbered from the fader base 48 instead of 64
ChooseNote_faderbase(ci) == IF ci = 9 THEN 98 ELSE U8(ci + 48 - 1)

ChooseNote(ci) == IF ci = 9 THEN 98 ELSE U8(ci + 64 - 1)

FaderId(ci) == U8(48 + ci - 1)

\* one iteration of the choose/fader loop body
ChooseCell(m, ci) ==
    [m EXCEPT
        !.button_mappings =
            Append(@, ButtonMapping("choose/" \o ToString(ci), ChooseNote(ci), 127, 0)),
        !.control_mappings =
            Append(@, ControlMapping("fader/" \o ToString(ci), FaderId(ci)))]

EmptyMapping == [control_mappings |-> <<>>, button_mappings |-> <<>>]

\* the three loops of apc_mini(), each as the fold of its body
GridLoop[k \in 0..64] ==
    IF k = 0 THEN EmptyMapping
    ELSE GridCell(GridLoop[k - 1], (k - 1) \div 8, (k - 1) % 8)

RightLoop[k \in 0..8] ==
    IF k = 0 THEN GridLoop[64] ELSE RightCell(RightLoop[k - 1], k - 1)

ChooseLoop[k \in 0..9] ==
    IF k = 0 THEN RightLoop[8] ELSE ChooseCell(ChooseLoop[k - 1], k)

\* the value apc_mini() returns
apc_mini == ChooseLoop[9]

(***************************************************************************)
(* The main thread: apc_mini() step by step.                               *)
(***************************************************************************)
NoMsg == [tag |-> "None"]

Init ==
    /\ pc = "grid"
    /\ x = 0
    /\ y = 0
    /\ i = 1
    /\ mapping = EmptyMapping
    /\ queue = <<>>
    /\ produced = 0
    /\ msg = NoMsg
    /\ midi_sent = <<>>
    /\ osc_sent = <<>>
    /\ stdout = <<>>
    /\ surface = <<>>
    /\ network = <<>>
    /\ received = <<>>
    /\ pending = <<>>
    /\ listening = FALSE
    /\ send_failed = FALSE

\* for x in 0..8 { for y in 0..8 { ... } }
GridStep ==
    /\ pc = "grid"
    /\ mapping' = GridCell(mapping, x, y)
    /\ IF y < 7 THEN /\ y' = y + 1
                     /\ x' = x
                     /\ pc' = pc
       ELSE IF x < 7 THEN /\ y' = 0
                          /\ x' = x + 1
                          /\ pc' = pc
       ELSE /\ y' = 0
            /\ x' = x
            /\ pc' = "right_column"
    /\ UNCHANGED <<i, queue, produced, msg, midi_sent, osc_sent, stdout, io>>

\* for y in 0..8 { ... }
RightStep ==
    /\ pc = "right_column"
    /\ mapping' = RightCell(mapping, y)
    /\ IF y < 7 THEN /\ y' = y + 1
                     /\ pc' = pc
       ELSE /\ y' = y
            /\ pc' = "choose"
    /\ UNCHANGED <<x, i, queue, produced, msg, midi_sent, osc_sent, stdout, io>>

\* for i in 1..=9 { ... }
ChooseStep ==
    /\ pc = "choose"
    /\ mapping' = ChooseCell(mapping, i)
    /\ IF i < 9 THEN /\ i' = i + 1
                     /\ pc' = pc
       ELSE /\ i' = i
            /\ pc' = "new"
    /\ UNCHANGED <<x, y, queue, produced, msg, midi_sent, osc_sent, stdout, io>>

(***************************************************************************)
(* mapper.rs: values                                                       *)
(***************************************************************************)
\* `n as f32` for an integer n (exact for every u8)
F32(n) == [num |-> n, den |-> 1]

\* `f as u8`: truncates toward zero and saturates at the bounds of u8;
\* NaN gives 0, +inf gives 255, -inf gives 0
FloatAsU8(f) ==
    IF f.den = 0 THEN (IF f.num > 0 THEN 255 ELSE 0)
    ELSE LET t == IF f.num >= 0 THEN f.num \div f.den
                  ELSE -((-f.num) \div f.den)
         IN  IF t < 0 THEN 0 ELSE IF t > 255 THEN 255 ELSE t

\* u7::from(u8) keeps the low seven bits
U7(n) == n % 128

OscFloat(f) == [type |-> "Float", val |-> f]
OscInt(n) == [type |-> "Int", val |-> n]
OscString(s) == [type |-> "String", val |-> s]

OscMessage(addr, args) == [addr |-> addr, args |-> args]

NoteOn(key, vel) == [type |-> "NoteOn", key |-> key, vel |-> vel]
NoteOff(key, vel) == [type |-> "NoteOff", key |-> key, vel |-> vel]
Controller(controller, value) ==
    [type |-> "Controller", controller |-> controller, value |-> value]
ProgramChange(program) == [type |-> "ProgramChange", program |-> program]

\* enum Message
MessageMidi(m) == [tag |-> "Midi", body |-> m]
MessageOsc(m) == [tag |-> "Osc", body |-> m]

\* str::starts_with, str::strip_prefix, str::strip_suffix, str::replace
starts_with(s, p) == Len(s) >= Len(p) /\ SubSeq(s, 1, Len(p)) = p

ends_with(s, p) == Len(s) >= Len(p) /\ SubSeq(s, Len(s) - Len(p) + 1, Len(s)) = p

strip_prefix(s, p) ==
    IF starts_with(s, p) THEN Some(SubSeq(s, Len(p) + 1, Len(s))) ELSE None

strip_suffix(s, p) ==
    IF ends_with(s, p) THEN Some(SubSeq(s, 1, Len(s) - Len(p))) ELSE None

RECURSIVE replace(_, _, _)
replace(s, from, to) ==
    IF Len(s) < Len(from) THEN s
    ELSE IF starts_with(s, from)
         THEN to \o replace(SubSeq(s, Len(from) + 1, Len(s)), from, to)
         ELSE SubSeq(s, 1, 1) \o replace(SubSeq(s, 2, Len(s)), from, to)

unwrap_or(opt, default) == IF opt = None THEN default ELSE opt[1]

(***************************************************************************)
(* mapper.rs: the two handlers, as the outputs they produce.  A result     *)
(* holds the MidiMessages passed to send_midi_message, the OscMessages     *)
(* passed to send_osc_message, the lines printed and whether the handler   *)
(* panicked.                                                               *)
(***************************************************************************)
Result(midi, osc, out, panic) ==
    [midi |-> midi, osc |-> osc, out |-> out, panic |-> panic]

Nothing == Result(<<>>, <<>>, <<>>, FALSE)

\* println!("{}: {:?}", name, value)
ValueLine(name, value) == [line |-> "value", name |-> name, value |-> value]

\* println!("unknown LED key {}", name)
UnknownLine(name) == [line |-> "unknown LED key", name |-> name]

\* NormalizeName without the removal of the trailing "/100"
NormalizeName_nostrip(suffix) == replace(suffix, "effects", "effect")

\* the two corrections applied to the suffix of an LED address
NormalizeName(suffix) ==
    LET name == replace(suffix, "effects", "effect")
    IN  unwrap_or(strip_suffix(name, "/100"), name)

\* match *val as u8 { 0 => .., 1 => .., value => println }
\* LedFloat sending the cast argument itself as the velocity
LedFloat_value(btn, name, val) ==
    LET v == FloatAsU8(val)
    IN  IF v \in {0, 1}
        THEN Result(<<NoteOn(U7(btn.note), v)>>, <<>>, <<>>, FALSE)
        ELSE Result(<<>>, <<>>, <<ValueLine(name, [type |-> "u8", val |-> v])>>, FALSE)

LedFloat(btn, name, val) ==
    LET v == FloatAsU8(val)
    IN  IF v = 0
        THEN Result(<<NoteOn(U7(btn.note), U7(btn.vel_off))>>, <<>>, <<>>, FALSE)
        ELSE IF v = 1
        THEN Result(<<NoteOn(U7(btn.note), U7(btn.vel_on))>>, <<>>, <<>>, FALSE)
        ELSE Result(<<>>, <<>>, <<ValueLine(name, [type |-> "u8", val |-> v])>>, FALSE)

\* match &msg.args[0] { Float(val) => .., value => println }
\* indexing an empty args vector panics
LedArgs(btn, name, args) ==
    IF args = <<>> THEN Result(<<>>, <<>>, <<>>, TRUE)
    ELSE IF args[1].type = "Float" THEN LedFloat(btn, name, args[1].val)
    ELSE Result(<<>>, <<>>, <<ValueLine(name, args[1])>>, FALSE)

\* UnknownKey without the suppression of the flash names
UnknownKey_noflash(name) == Result(<<>>, <<>>, <<UnknownLine(name)>>, FALSE)

\* the else branch: no button has the name
UnknownKey(name) ==
    IF starts_with(name, "flash") THEN Nothing
    ELSE Result(<<>>, <<>>, <<UnknownLine(name)>>, FALSE)

\* handle_osc_message matching any status address, not only LED status
handle_osc_message_status(m, message) ==
    LET suffix == strip_prefix(message.addr, "/hog/status/")
    IN  IF suffix # None
        THEN LET name == NormalizeName(suffix[1])
                 btn == button_from_name(m, name)
             IN  IF btn # None THEN LedArgs(btn[1], name, message.args)
                 ELSE UnknownKey(name)
        ELSE Nothing

handle_osc_message(m, message) ==
    LET suffix == strip_prefix(message.addr, "/hog/status/led/")
    IN  IF suffix # None
        THEN LET name == NormalizeName(suffix[1])
                 btn == button_from_name(m, name)
             IN  IF btn # None THEN LedArgs(btn[1], name, message.args)
                 ELSE UnknownKey(name)
        ELSE Nothing

\* ControllerValue with the carry taken from bit 5 instead of bit 6
ControllerValue_div32(value) == value * 2 + value \div 32

\* u8::from(value) * 2 + u8::from(value) / 64, before it is narrowed to u8
ControllerValue(value) == value * 2 + value \div 64

\* the Controller arm: an overflow of the u8 arithmetic panics when the
\* build checks overflow and wraps otherwise
ControllerArm(c, value, overflow_checks) ==
    IF ControllerValue(value) > 255 /\ overflow_checks
    THEN Result(<<>>, <<>>, <<>>, TRUE)
    ELSE Result(<<>>,
                <<OscMessage("/hog/hardware/" \o c.name,
                             <<OscFloat(F32(U8(ControllerValue(value))))>>)>>,
                <<>>, FALSE)

\* NoteArm with the levels of press and release exchanged
NoteArm_inverted(btn, level) ==
    Result(<<>>,
           <<OscMessage("/hog/hardware/" \o btn.name, <<OscFloat(F32(1 - level))>>)>>,
           <<>>, FALSE)

\* the NoteOn and NoteOff arms
NoteArm(btn, level) ==
    Result(<<>>,
           <<OscMessage("/hog/hardware/" \o btn.name, <<OscFloat(F32(level))>>)>>,
           <<>>, FALSE)

handle_midi_message(m, message, overflow_checks) ==
    IF message.type = "NoteOn"
    THEN LET btn == button_from_note(m, message.key)
         IN  IF btn # None THEN NoteArm(btn[1], 1) ELSE Nothing
    ELSE IF message.type = "NoteOff"
    THEN LET btn == button_from_note(m, message.key)
         IN  IF btn # None THEN NoteArm(btn[1], 0) ELSE Nothing
    ELSE IF message.type = "Controller"
    THEN LET c == controller_from_id(m, message.controller)
         IN  IF c # None THEN ControllerArm(c[1], message.value, overflow_checks)
             ELSE Nothing
    ELSE Nothing

\* send_midi_message wraps the message in a LiveEvent on channel 0
send_midi_message(message) == [channel |-> 0, message |-> message]

\* all_midi_off sending the lit velocity of every button
all_midi_off_lit(m) ==
    [k \in 1..Len(m.button_mappings) |->
        send_midi_message(NoteOn(U7(m.button_mappings[k].note),
                                 U7(m.button_mappings[k].vel_on)))]

\* the LiveEvents all_midi_off sends, in order
all_midi_off(m) ==
    [k \in 1..Len(m.button_mappings) |->
        send_midi_message(NoteOn(U7(m.button_mappings[k].note),
                                 U7(m.button_mappings[k].vel_off)))]

\* handle_osc_packet: the messages of a packet, bundles unwrapped depth first
RECURSIVE handle_osc_packet(_)
RECURSIVE BundleContent(_, _)
RECURSIVE BundleContent_reversed(_, _)

\* BundleContent walking the content from its last element to its first
BundleContent_reversed(content, k) ==
    IF k > Len(content) THEN <<>>
    ELSE BundleContent_reversed(content, k + 1) \o handle_osc_packet(content[k])

\* for pkg in bundle.content { handle_osc_packet(pkg, msgs) }, from element k on
BundleContent(content, k) ==
    IF k > Len(content) THEN <<>>
    ELSE handle_osc_packet(content[k]) \o BundleContent(content, k + 1)

handle_osc_packet(packet) ==
    IF packet.kind = "Message" THEN <<MessageOsc(packet.msg)>>
    ELSE BundleContent(packet.content, 1)

PacketMessage(m) == [kind |-> "Message", msg |-> m]
PacketBundle(content) == [kind |-> "Bundle", content |-> content]

(***************************************************************************)
(* Inputs.                                                                 *)
(***************************************************************************)
\* f32 values a console can send: 0, 1, fractions, values beyond u8,
\* negative values, NaN and the infinities
FloatSample ==
    { [num |-> 0, den |-> 1], [num |-> 1, den |-> 1], [num |-> 1, den |-> 2],
      [num |-> 3, den |-> 2], [num |-> 2, den |-> 1], [num |-> -1, den |-> 1],
      [num |-> -1, den |-> 2], [num |-> 255, den |-> 1], [num |-> 257, den |-> 1],
      [num |-> 0, den |-> 0], [num |-> 1, den |-> 0], [num |-> -1, den |-> 0] }

ArgsSample ==
    {<<>>}
    \cup {<<OscFloat(f)>> : f \in FloatSample}
    \cup { <<OscInt(0)>>, <<OscInt(1)>>, <<OscString("on")>>,
           <<OscFloat(F32(1)), OscFloat(F32(0))>>,
           <<OscInt(1), OscFloat(F32(1))>> }

LedPrefix == "/hog/status/led/"

\* every name of the layout, bare and with the /100 suffix, and names
\* that match no button
NameSample ==
    LET layout == {GridName(cx, cy) : cx \in 0..7, cy \in 0..7}
                  \cup {right_column[k] : k \in 1..8}
                  \cup {"choose/" \o ToString(k) : k \in 0..10}
    IN  layout \cup {n \o "/100" : n \in layout}
        \cup { "effects", "effects/100", "colintensityeffects", "effectsflash",
               "flashsomething", "flash", "flash/100", "flasheffects",
               "unknown", "maingo/100/100", "maingo/10", "Maingo", "/100",
               "effectseffects", "entereffects" }

AddrSample ==
    {LedPrefix \o n : n \in NameSample}
    \cup { "/hog/status/time", "/hog/status/time/clock", "/hog/status/led",
           "/hog/status/leds/maingo", "/hog/hardware/maingo", "maingo", "" }

\* every MidiMessage the surface can send
AllMidi ==
    {NoteOn(k, v) : k \in 0..127, v \in {0, 1, 127}}
    \cup {NoteOff(k, v) : k \in 0..127, v \in {0, 64}}
    \cup {Controller(c, v) : c \in 0..127, v \in 0..127}
    \cup {ProgramChange(0)}

AllOsc == {OscMessage(a, args) : a \in AddrSample, args \in ArgsSample}

AllMessages == {MessageMidi(m) : m \in AllMidi} \cup {MessageOsc(m) : m \in AllOsc}

\* what the midir callback is called with: channel messages and others
LiveEventSample ==
    { [kind |-> "Midi", channel |-> ch, message |-> m] :
        ch \in {0, 1},
        m \in { NoteOn(16, 127), NoteOff(16, 0), NoteOn(49, 127), NoteOn(7, 1),
                Controller(48, 127), Controller(57, 64), ProgramChange(0) } }
    \cup { [kind |-> "Realtime"] }

PacketSample ==
    LET go100 == OscMessage(LedPrefix \o "maingo/100", <<OscFloat(F32(0))>>)
        goOn == OscMessage(LedPrefix \o "maingo", <<OscFloat(F32(1))>>)
        half == OscMessage(LedPrefix \o "maingo", <<OscFloat([num |-> 1, den |-> 2])>>)
        noArg == OscMessage(LedPrefix \o "maingo", <<>>)
        intArg == OscMessage(LedPrefix \o "enter", <<OscInt(1)>>)
        col == OscMessage(LedPrefix \o "colintensityeffects", <<OscFloat(F32(1))>>)
        flash == OscMessage(LedPrefix \o "flashsomething", <<OscFloat(F32(1))>>)
        time == OscMessage("/hog/status/time/clock", <<OscString("12:00")>>)
    IN  {PacketMessage(m) : m \in {go100, goOn, half, noArg, intArg, col, flash, time}}
        \cup { PacketBundle(<<>>),
               PacketBundle(<<PacketMessage(goOn), PacketBundle(<<PacketMessage(flash)>>)>>) }

(***************************************************************************)
(* main(): Mapper::new, all_midi_off, start.                               *)
(***************************************************************************)
\* Mapper::new connects the producers and the outputs; an Err ends main
New ==
    /\ pc = "new"
    /\ \E ok \in BOOLEAN :
         /\ pc' = IF ok THEN "all_midi_off" ELSE "failed"
         /\ listening' = ok
    /\ UNCHANGED <<x, y, i, mapping, queue, produced, msg, midi_sent, osc_sent, stdout,
                   surface, network, received, pending, send_failed>>

\* the producers run from Mapper::new until the process ends
Running == pc \in {"all_midi_off", "start"}

\* midi_callback without the guard on the channel
midi_callback_anychannel(ev) ==
    IF ev.kind = "Midi" THEN <<MessageMidi(ev.message)>> ELSE <<>>

\* the callback of connect_midi_input, as the messages it sends for an
\* event: only channel messages of channel 0 are forwarded
midi_callback(ev) ==
    IF ev.kind = "Midi" /\ ev.channel = 0 THEN <<MessageMidi(ev.message)>> ELSE <<>>

\* the midir callback is called with one event
MidiInput ==
    /\ Running
    /\ produced < MaxEvents
    /\ \E ev \in LiveEventSample :
         /\ surface' = Append(surface, ev)
         /\ queue' = queue \o midi_callback(ev)
    /\ produced' = produced + 1
    /\ UNCHANGED <<pc, x, y, i, mapping, msg, midi_sent, osc_sent, stdout,
                   network, received, pending, listening, send_failed>>

\* println!("Error receiving from socket: {}", e)
ErrorLine(e) == [line |-> "Error receiving from socket", error |-> e]

\* listen_osc leaving its loop on a decode error as it does on a recv error
listen_osc_break(d) ==
    IF d.result = "packet"
    THEN [msgs |-> handle_osc_packet(d.packet), out |-> <<>>, continue |-> TRUE]
    ELSE IF d.result = "decode_err"
    THEN [msgs |-> <<>>, out |-> <<ErrorLine("decode")>>, continue |-> FALSE]
    ELSE [msgs |-> <<>>, out |-> <<ErrorLine("recv")>>, continue |-> FALSE]

\* one iteration of the loop of listen_osc, for the result d of recv_from
\* and decode_udp: the messages handle_osc_packet will send, the line
\* printed and whether the loop goes on (a recv error breaks it)
listen_osc(d) ==
    IF d.result = "packet"
    THEN [msgs |-> handle_osc_packet(d.packet), out |-> <<>>, continue |-> TRUE]
    ELSE IF d.result = "decode_err"
    THEN [msgs |-> <<>>, out |-> <<ErrorLine("decode")>>, continue |-> TRUE]
    ELSE [msgs |-> <<>>, out |-> <<ErrorLine("recv")>>, continue |-> FALSE]

\* what recv_from and decode_udp can give
DatagramSample ==
    {[result |-> "packet", packet |-> p] : p \in PacketSample}
    \cup {[result |-> "decode_err"], [result |-> "recv_err"]}

\* the loop of listen_osc takes the next datagram
ListenOsc ==
    /\ Running
    /\ listening
    /\ pending = <<>>
    /\ produced < MaxEvents
    /\ \E d \in DatagramSample :
         /\ network' = Append(network, d)
         /\ pending' = listen_osc(d).msgs
         /\ stdout' = stdout \o listen_osc(d).out
         /\ listening' = listen_osc(d).continue
    /\ produced' = produced + 1
    /\ UNCHANGED <<pc, x, y, i, mapping, queue, msg, midi_sent, osc_sent,
                   surface, received, send_failed>>

\* handle_osc_packet sends the next message of the packet into the channel
SendOsc ==
    /\ Running
    /\ pending # <<>>
    /\ queue' = Append(queue, Head(pending))
    /\ pending' = Tail(pending)
    /\ UNCHANGED <<pc, x, y, i, mapping, produced, msg, midi_sent, osc_sent, stdout,
                   surface, network, received, listening, send_failed>>

\* a send whose Err is dropped instead of unwrapped
SendPanics_never(send_ok) == FALSE

\* Result::unwrap on the result of a send: Err panics
SendPanics(send_ok) == ~send_ok

\* the sends of all_midi_off that are made to fail: none (0), the first,
\* the second, one in the middle and the last of n
FailAtSample(n) == {0, 1, 2, n \div 2, n}

\* all_midi_off: a failed send panics (unwrap) and ends the process;
\* fail_at = 0 means every send succeeded.  The end of the process ends
\* the producers and drops the channel.
AllMidiOff ==
    /\ pc = "all_midi_off"
    /\ \E fail_at \in FailAtSample(Len(mapping.button_mappings)) :
         IF fail_at # 0 /\ SendPanics(FALSE)
         THEN /\ midi_sent' = midi_sent \o SubSeq(all_midi_off(mapping), 1, fail_at)
              /\ pc' = "panicked"
              /\ send_failed' = TRUE
              /\ queue' = <<>>
              /\ pending' = <<>>
              /\ listening' = FALSE
         ELSE /\ midi_sent' = midi_sent \o all_midi_off(mapping)
              /\ pc' = "start"
              /\ send_failed' = (send_failed \/ fail_at # 0)
              /\ UNCHANGED <<queue, pending, listening>>
    /\ UNCHANGED <<x, y, i, mapping, produced, msg, osc_sent, stdout,
                   surface, network, received>>

\* one sender shared by both producers and gone with the listener's loop
Senders_shared(is_listening) == IF is_listening THEN {"midi", "osc"} ELSE {}

\* the senders of the channel that are alive: the callback of the midi
\* input connection holds one for as long as the Mapper lives, the thread
\* of listen_osc holds one until its loop breaks
Senders(is_listening) == {"midi"} \cup (IF is_listening THEN {"osc"} ELSE {})

\* a receive that takes the newest message of the channel
Recv_newest(q) == [msg |-> q[Len(q)], rest |-> SubSeq(q, 1, Len(q) - 1)]

\* Receiver::recv: the oldest message of the channel
Recv(q) == [msg |-> Head(q), rest |-> Tail(q)]

\* one iteration of the loop of start(): recv, then the handler to its end;
\* a failed send (send_ok = FALSE) and a panic of the handler end the
\* process; recv on an empty channel blocks while a sender is alive and
\* returns Err (unwrap panics) when none is
Start ==
    /\ pc = "start"
    /\ IF queue = <<>>
       THEN /\ Senders(listening) = {}
            /\ pc' = "panicked"
            /\ UNCHANGED <<queue, msg, midi_sent, osc_sent, stdout, received,
                           pending, listening, send_failed>>
       ELSE \E send_ok \in BOOLEAN, overflow_checks \in BOOLEAN :
         LET m == Recv(queue).msg
             r == IF m.tag = "Midi"
                  THEN handle_midi_message(mapping, m.body, overflow_checks)
                  ELSE handle_osc_message(mapping, m.body)
             sends == r.midi # <<>> \/ r.osc # <<>>
             died == r.panic \/ (sends /\ SendPanics(send_ok))
         IN  /\ msg' = m
             /\ received' = Append(received, m)
             /\ midi_sent' = midi_sent \o [k \in 1..Len(r.midi) |-> send_midi_message(r.midi[k])]
             /\ osc_sent' = osc_sent \o r.osc
             /\ stdout' = stdout \o r.out
             /\ send_failed' = (send_failed \/ (sends /\ ~send_ok))
             /\ pc' = IF died THEN "panicked" ELSE "start"
             /\ queue' = IF died THEN <<>> ELSE Recv(queue).rest
             /\ pending' = IF died THEN <<>> ELSE pending
             /\ listening' = IF died THEN FALSE ELSE listening
    /\ UNCHANGED <<x, y, i, mapping, produced, surface, network>>

Next ==
    \/ GridStep
    \/ RightStep
    \/ ChooseStep
    \/ New
    \/ MidiInput
    \/ ListenOsc
    \/ SendOsc
    \/ AllMidiOff
    \/ Start

Spec == Init /\ [][Next]_vars
(***************************************************************************)
(* The router alone: the state main() is in when start() runs with one     *)
(* message in the channel, for every message of AllMessages.               *)
(***************************************************************************)
InitRouter ==
    /\ pc = "start"
    /\ x = 7
    /\ y = 7
    /\ i = 9
    /\ mapping = apc_mini
    /\ queue \in {<<m>> : m \in AllMessages}
    /\ produced = 1
    /\ msg = NoMsg
    /\ midi_sent = all_midi_off(apc_mini)
    /\ osc_sent = <<>>
    /\ stdout = <<>>
    /\ surface = IF queue[1].tag = "Midi"
                 THEN <<[kind |-> "Midi", channel |-> 0, message |-> queue[1].body]>>
                 ELSE <<>>
    /\ network = IF queue[1].tag = "Osc"
                 THEN <<[result |-> "packet", packet |-> PacketMessage(queue[1].body)]>>
                 ELSE <<>>
    /\ received = <<>>
    /\ pending = <<>>
    /\ listening = TRUE
    /\ send_failed = FALSE

SpecRouter == InitRouter /\ [][Start]_vars

\* the nesting of the packets of SpecPacket: bundles inside bundles down to
\* PacketDepth, with up to PacketWidth elements each
PacketDepth == 2
PacketWidth == 2

\* the messages the packets of SpecPacket are made of
PacketMessages ==
    { OscMessage(LedPrefix \o "maingo", <<OscFloat(F32(1))>>),
      OscMessage("/hog/status/time", <<>>) }

\* every OscPacket nested to depth d at most
RECURSIVE Packets(_)
Packets(d) ==
    IF d = 0 THEN {PacketMessage(m) : m \in PacketMessages}
    ELSE LET sub == Packets(d - 1)
         IN  sub \cup {PacketBundle(c) : c \in UNION {[1..n -> sub] : n \in 0..PacketWidth}}

AllPackets == Packets(PacketDepth)

\* the listener, alone: it has decoded one packet, of any shape, and
\* handle_osc_packet is about to send its messages
InitPacket ==
    /\ pc = "start"
    /\ x = 7
    /\ y = 7
    /\ i = 9
    /\ mapping = apc_mini
    /\ queue = <<>>
    /\ produced = 1
    /\ msg = NoMsg
    /\ midi_sent = all_midi_off(apc_mini)
    /\ osc_sent = <<>>
    /\ stdout = <<>>
    /\ surface = <<>>
    /\ network \in {<<[result |-> "packet", packet |-> p]>> : p \in AllPackets}
    /\ received = <<>>
    /\ pending = listen_osc(network[1]).msgs
    /\ listening = listen_osc(network[1]).continue
    /\ send_failed = FALSE

SpecPacket == InitPacket /\ [][SendOsc]_vars

(***************************************************************************)
(* Properties of the registry apc_mini() builds.                           *)
(***************************************************************************)
\* apc_mini() has returned
Built == pc \notin {"grid", "right_column", "choose"}

Buttons == mapping.button_mappings

ButtonSet == {Buttons[k] : k \in 1..Len(Buttons)}

\* C1: in the built registry no two entries of the button collection share
\* a note and no two entries share a name.
C1_UniqueNoteAndName ==
    Built =>
        \A j, k \in 1..Len(Buttons) :
            j # k => /\ Buttons[j].note # Buttons[k].note
                     /\ Buttons[j].name # Buttons[k].name

\* C2: for every button b of the built registry, looking the note of
\* button_from_name(b.name) up by note returns the entry that
\* button_from_name(b.name) returned.
C2_RoundTrip ==
    Built =>
        \A b \in ButtonSet :
            LET e == button_from_name(mapping, b.name)
            IN  /\ e # None
                /\ button_from_note(mapping, e[1].note) = e

\* the registry is built and the by-name lookup of the doubled name "enter"
\* and the by-note lookup of its note meet in one entry
C2_Witness ==
    /\ pc = "new"
    /\ button_from_name(mapping, "enter") # None
    /\ button_from_name(mapping, "enter")[1].note = 6
    /\ button_from_note(mapping, 6) = button_from_name(mapping, "enter")
    /\ button_from_name(mapping, "choose/9")[1].note = 98

\* C3 as stated: the grid button at (x=2, y=3), note 26, has vel_off 5 and
\* the grid button at (x=0, y=0), note 0, has vel_off 3.
C3_Original ==
    Built =>
        /\ \E b \in ButtonSet : b.note = 26 /\ b.vel_off = 5
        /\ \E b \in ButtonSet : b.note = 0 /\ b.vel_off = 3

\* C3 amended: the grid button at (x=2, y=3), note 26, has vel_off 3 (row 3
\* of columns 1..3 is outside the interior rule) and the grid button at
\* (x=0, y=0), note 0, has vel_off 3.
C3_VelOff ==
    Built =>
        /\ \E b \in ButtonSet : b.note = 26
        /\ \A b \in ButtonSet : b.note = 26 => b.vel_off = 3
        /\ \E b \in ButtonSet : b.note = 0
        /\ \A b \in ButtonSet : b.note = 0 => b.vel_off = 3

\* the registry is built and holds the two grid buttons with their rest
\* intensities
C3_Witness ==
    /\ pc = "new"
    /\ ButtonMapping("move", 26, 127, 3) \in ButtonSet
    /\ ButtonMapping("maingo", 0, 127, 3) \in ButtonSet

\* C4: for every grid position (cx, cy): a non-empty cell at source row
\* 7 - cy, column cx gives a button with the cell's name, note 8*cy + cx,
\* vel_on 127 and vel_off 5 inside the interior rule, 3 outside; for an
\* empty cell button_from_note(8*cy + cx) returns nothing.
C4_Grid ==
    Built =>
        \A cx \in 0..7, cy \in 0..7 :
            LET cell == button_matrix[(7 - cy) + 1][cx + 1]
                interior == \/ cx \in 1..3 /\ (cy \in 0..1 \/ cy \in 4..7)
                            \/ cx \in 4..7 /\ (cy \in 0..4 \/ cy = 7)
            IN  IF cell # ""
                THEN [name |-> cell, note |-> 8 * cy + cx, vel_on |-> 127,
                      vel_off |-> IF interior THEN 5 ELSE 3] \in ButtonSet
                ELSE button_from_note(mapping, 8 * cy + cx) = None

\* the registry is built, a populated cell of either intensity is present
\* and the note of an empty cell is absent
C4_Witness ==
    /\ pc = "new"
    /\ ButtonMapping("ewheelbutton/4", 63, 127, 5) \in ButtonSet
    /\ ButtonMapping("grandmaster", 48, 127, 3) \in ButtonSet
    /\ button_from_note(mapping, 57) = None
    /\ button_from_note(mapping, 49) = None
(***************************************************************************)
(* Properties of the router: what one iteration of start() does with the   *)
(* message it receives.                                                    *)
(***************************************************************************)
\* this step is the router taking the head of the channel
Dequeued == pc = "start" /\ queue # <<>> /\ Len(queue') < Len(queue)

Received == Head(queue)

\* the router stays in its loop and goes on with the rest of the channel
Continues == pc' = "start" /\ queue' = Tail(queue)

\* a lamp command on the surface output
Lamp(key, vel) ==
    [channel |-> 0, message |-> [type |-> "NoteOn", key |-> key, vel |-> vel]]

\* a control event on the network output, with an integral float argument
Hardware(name, n) ==
    [addr |-> "/hog/hardware/" \o name,
     args |-> <<[type |-> "Float", val |-> [num |-> n, den |-> 1]]>>]

\* the received message is an LED status for the name `suffix`
IsLed(suffix) ==
    /\ Received.tag = "Osc"
    /\ Received.body.addr = "/hog/status/led/" \o suffix

\* C5: a dequeued note-on or note-off whose note is mapped to a button b
\* emits exactly one network message, "/hog/hardware/<b.name>" with the
\* float 1.0 for note-on and 0.0 for note-off, whatever the velocity; an
\* unmapped note emits nothing and the router continues.  Note-on for note
\* 16 emits "/hog/hardware/mainback" with 1.0.
C5_NoteToOsc ==
    [][ (Dequeued /\ Received.tag = "Midi"
                  /\ Received.body.type \in {"NoteOn", "NoteOff"}) =>
        LET key == Received.body.key
            level == IF Received.body.type = "NoteOn" THEN 1 ELSE 0
            mapped == {b \in ButtonSet : b.note = key}
        IN  /\ midi_sent' = midi_sent
            /\ stdout' = stdout
            /\ IF mapped # {}
               THEN \E b \in mapped : osc_sent' = Append(osc_sent, Hardware(b.name, level))
               ELSE osc_sent' = osc_sent /\ Continues
            /\ (key = 16 /\ level = 1) =>
                 osc_sent' = Append(osc_sent,
                    [addr |-> "/hog/hardware/mainback",
                     args |-> <<[type |-> "Float", val |-> [num |-> 1, den |-> 1]]>>])
      ]_vars

\* the router has handled note-on for note 16 and sent the mainback press
C5_Witness ==
    /\ pc = "start"
    /\ msg = MessageMidi(NoteOn(16, 127))
    /\ osc_sent = <<Hardware("mainback", 1)>>

\* C6: a dequeued controller change with id c and value v: for c in 48..56
\* exactly one message goes to "/hog/hardware/fader/<c-47>" with the float
\* v*2 + (v div 64), which lies in 0..255 (0 for v = 0, 255 for v = 127) and
\* is computed without overflow of u8; for any other id nothing is emitted.
C6_ControllerToOsc ==
    [][ (Dequeued /\ Received.tag = "Midi" /\ Received.body.type = "Controller") =>
        LET c == Received.body.controller
            v == Received.body.value
            f == v * 2 + (v \div 64)
        IN  /\ midi_sent' = midi_sent
            /\ stdout' = stdout
            /\ IF c \in 48..56
               THEN /\ osc_sent' = Append(osc_sent, Hardware("fader/" \o ToString(c - 47), f))
                    /\ f \in 0..255
                    /\ v = 0 => f = 0
                    /\ v = 127 => f = 255
               ELSE osc_sent' = osc_sent /\ Continues
      ]_vars

\* the router has handled fader 9 at full scale and sent 255
C6_Witness ==
    /\ pc = "start"
    /\ msg = MessageMidi(Controller(56, 127))
    /\ osc_sent = <<Hardware("fader/9", 255)>>

\* C7: an LED status whose normalized name matches a button b and whose
\* first argument is a float v emits the lamp command (b.note, b.vel_off)
\* when v is exactly 0, (b.note, b.vel_on) when v is exactly 1, and for any
\* other value only reports it and emits no lamp command.
C7_ExactFloat ==
    [][ \A suffix \in NameSample :
        LET named == {b \in ButtonSet : b.name = NormalizeName(suffix)}
            args == Received.body.args
        IN  (Dequeued /\ IsLed(suffix) /\ named # {}
                      /\ args # <<>> /\ args[1].type = "Float") =>
            LET v == args[1].val
            IN  IF v.den # 0 /\ v.num = 0
                THEN \E b \in named : midi_sent' = Append(midi_sent, Lamp(b.note, b.vel_off))
                ELSE IF v.den # 0 /\ v.num = v.den
                THEN \E b \in named : midi_sent' = Append(midi_sent, Lamp(b.note, b.vel_on))
                ELSE /\ midi_sent' = midi_sent
                     /\ Len(stdout') = Len(stdout) + 1
      ]_vars

\* C8: an LED status whose normalized name matches a button and which has
\* no argument, or a first argument that is not a float, is reported, emits
\* no lamp command, and the router goes on with the later messages.
C8_BadArgument ==
    [][ \A suffix \in NameSample :
        LET named == {b \in ButtonSet : b.name = NormalizeName(suffix)}
            args == Received.body.args
        IN  (Dequeued /\ IsLed(suffix) /\ named # {}
                      /\ (args = <<>> \/ args[1].type # "Float")) =>
            /\ midi_sent' = midi_sent
            /\ osc_sent' = osc_sent
            /\ Len(stdout') = Len(stdout) + 1
            /\ Continues
      ]_vars

\* C9: the suffix of an LED address is looked up after "effects" is
\* rewritten to "effect" and one trailing "/100" is removed: "<name>/100"
\* with 0.0 sets the lamp of <name> to its vel_off (so "maingo/100" with
\* 0.0 emits maingo's note and vel_off), "effects" is looked up as "effect",
\* "colintensityeffects" as "colintensityeffect".
C9_Normalize ==
    [][ Dequeued =>
        LET args == Received.body.args
            zero == <<[type |-> "Float", val |-> [num |-> 0, den |-> 1]]>>
            one == <<[type |-> "Float", val |-> [num |-> 1, den |-> 1]]>>
            Off(name) == \E b \in ButtonSet :
                            /\ b.name = name
                            /\ midi_sent' = Append(midi_sent, Lamp(b.note, b.vel_off))
            On(name) == \E b \in ButtonSet :
                            /\ b.name = name
                            /\ midi_sent' = Append(midi_sent, Lamp(b.note, b.vel_on))
            Unknown(name) ==
                /\ midi_sent' = midi_sent
                /\ stdout' = Append(stdout, [line |-> "unknown LED key", name |-> name])
        IN  /\ \A b \in ButtonSet : (IsLed(b.name \o "/100") /\ args = zero) => Off(b.name)
            /\ (IsLed("maingo/100") /\ args = zero) => Off("maingo")
            /\ (IsLed("effects") /\ args = one) => On("effect")
            /\ (IsLed("effects/100") /\ args = zero) => Off("effect")
            /\ IsLed("colintensityeffects") => Unknown("colintensityeffect")
            /\ IsLed("maingo/100/100") => Unknown("maingo/100")
      ]_vars

\* the router has handled "/hog/status/led/maingo/100" with 0.0 and sent
\* the lamp command of maingo (note 0) at its vel_off (3)
C9_Witness ==
    /\ pc = "start"
    /\ msg = MessageOsc(OscMessage("/hog/status/led/maingo/100", <<OscFloat(F32(0))>>))
    /\ midi_sent = all_midi_off(mapping) \o <<Lamp(0, 3)>>
    /\ ButtonMapping("maingo", 0, 127, 3) \in ButtonSet

\* C10: an LED status whose normalized name matches no button produces no
\* output; a name beginning with "flash" is not reported either, any other
\* name is reported as unknown; in both cases the router continues.
C10_Unmatched ==
    [][ \A suffix \in NameSample :
        LET name == NormalizeName(suffix)
            flash == Len(name) >= 5 /\ SubSeq(name, 1, 5) = "flash"
        IN  (Dequeued /\ IsLed(suffix) /\ \A b \in ButtonSet : b.name # name) =>
            /\ midi_sent' = midi_sent
            /\ osc_sent' = osc_sent
            /\ Continues
            /\ IF flash THEN stdout' = stdout
               ELSE stdout' = Append(stdout, [line |-> "unknown LED key", name |-> name])
      ]_vars

\* the router has handled "/hog/status/led/flashsomething", printed and
\* sent nothing and is back in its loop
C10_Witness ==
    /\ pc = "start"
    /\ msg = MessageOsc(OscMessage("/hog/status/led/flashsomething", <<OscFloat(F32(1))>>))
    /\ queue = <<>>
    /\ stdout = <<>>
    /\ osc_sent = <<>>
    /\ midi_sent = all_midi_off(mapping)

\* the address begins with "/hog/status/led/" (16 characters)
BeginsWithLed(addr) == Len(addr) >= 16 /\ SubSeq(addr, 1, 16) = "/hog/status/led/"

\* C11: a dequeued network message whose address does not begin with
\* "/hog/status/led/" (every address beginning with "/hog/status/time"
\* included) causes no emission on either output, prints nothing, and the
\* router stays in its loop with the rest of the queue.
C11_NotLed ==
    [][ (Dequeued /\ Received.tag = "Osc" /\ ~BeginsWithLed(Received.body.addr)) =>
        /\ midi_sent' = midi_sent
        /\ osc_sent' = osc_sent
        /\ stdout' = stdout
        /\ Continues ]_vars

\* the time status with a float argument was handled and nothing was emitted
C11_Witness ==
    /\ pc = "start"
    /\ msg = [tag |-> "Osc",
              body |-> [addr |-> "/hog/status/time",
                        args |-> <<[type |-> "Float", val |-> [num |-> 1, den |-> 1]]>>]]
    /\ midi_sent = all_midi_off(mapping)
    /\ osc_sent = <<>>
    /\ stdout = <<>>

\* the first Len(Buttons) messages of the surface output are lamp commands,
\* exactly one for every entry of the registry, each with the entry's note
\* and vel_off
StartupLampsSent ==
    LET n == Len(Buttons)
    IN  /\ Len(midi_sent) >= n
        /\ \A k \in 1..n : \E b \in ButtonSet : midi_sent[k] = Lamp(b.note, b.vel_off)
        /\ \A b \in ButtonSet :
             Cardinality({k \in 1..n : /\ midi_sent[k].message.key = b.note
                                       /\ midi_sent[k] = Lamp(b.note, b.vel_off)}) = 1

\* C12: all_midi_off emits exactly one lamp command (note-on, the entry's
\* note, the entry's vel_off) for every entry of the registry, and all of
\* them before the router receives or emits anything: until all_midi_off
\* has run nothing is emitted and nothing is received, whatever the
\* producers have enqueued meanwhile, and anything received or emitted by
\* the router comes after the complete set of startup lamp commands.
C12_StartupFirst ==
    /\ pc \in {"grid", "right_column", "choose", "new", "failed", "all_midi_off"} =>
         (midi_sent = <<>> /\ osc_sent = <<>> /\ received = <<>>)
    /\ pc = "start" => StartupLampsSent
    /\ (received # <<>> \/ osc_sent # <<>> \/ Len(midi_sent) > Len(Buttons)) =>
         StartupLampsSent

\* events of both producers were enqueued, all_midi_off has sent the 73
\* lamp commands and the router has not received anything yet
C12_Witness ==
    /\ pc = "start"
    /\ received = <<>>
    /\ \E k \in 1..Len(queue) : queue[k].tag = "Midi"
    /\ \E k \in 1..Len(queue) : queue[k].tag = "Osc"
    /\ Len(midi_sent) = 73
    /\ StartupLampsSent
    /\ osc_sent = <<>>

\* the surface event the callback was called with in this step
Delivered == surface'[Len(surface')]

\* C13: a surface event received on a channel other than 0 is never
\* enqueued and causes no network message: the callback step of such an
\* event leaves the queue and both outputs unchanged, the step of a
\* channel-0 event appends exactly its message, and every surface message
\* the router has received or will receive is the message of a channel-0
\* event.
C13_ChannelZero ==
    /\ [](\A m \in {queue[k] : k \in 1..Len(queue)} \cup {received[k] : k \in 1..Len(received)} :
            m.tag = "Midi" =>
              \E k \in 1..Len(surface) :
                 /\ surface[k].kind = "Midi"
                 /\ surface[k].channel = 0
                 /\ surface[k].message = m.body)
    /\ [][ surface' # surface =>
             /\ surface' = Append(surface, Delivered)
             /\ IF Delivered.kind = "Midi" /\ Delivered.channel = 0
                THEN queue' = Append(queue, [tag |-> "Midi", body |-> Delivered.message])
                ELSE queue' = queue
             /\ midi_sent' = midi_sent
             /\ osc_sent' = osc_sent
             /\ received' = received ]_vars

\* a note-on for a mapped note arrived on channel 1 while the router was
\* waiting: nothing was enqueued, received or sent to the network
C13_Witness ==
    /\ pc = "start"
    /\ surface = <<[kind |-> "Midi", channel |-> 1,
                    message |-> [type |-> "NoteOn", key |-> 16, vel |-> 127]]>>
    /\ queue = <<>>
    /\ received = <<>>
    /\ osc_sent = <<>>

\* a is an initial part of b
IsPrefix(a, b) == Len(a) <= Len(b) /\ SubSeq(b, 1, Len(a)) = a

\* the messages of the surface source in arrival order: the messages of
\* the channel-0 events, in the order the callback was called with them
SurfaceArrived ==
    LET F[k \in 0..Len(surface)] ==
          IF k = 0 THEN <<>>
          ELSE IF surface[k].kind = "Midi" /\ surface[k].channel = 0
               THEN Append(F[k - 1], [tag |-> "Midi", body |-> surface[k].message])
               ELSE F[k - 1]
    IN  F[Len(surface)]

\* the messages of the network source in arrival order: the messages of the
\* decoded packets, in the order the datagrams were received
NetworkArrived ==
    LET F[k \in 0..Len(network)] ==
          IF k = 0 THEN <<>>
          ELSE IF network[k].result = "packet"
               THEN F[k - 1] \o handle_osc_packet(network[k].packet)
               ELSE F[k - 1]
    IN  F[Len(network)]

\* the messages of one source among the received ones, in the order received
ReceivedOf(tag) == SelectSeq(received, LAMBDA m : m.tag = tag)

\* the messages of one source the router has received or will receive
HandledOf(tag) == SelectSeq(received \o queue, LAMBDA m : m.tag = tag)

\* the outputs the handlers give for the received messages, in the order received
OutputsOf(field) ==
    LET F[k \in 0..Len(received)] ==
          IF k = 0 THEN <<>>
          ELSE F[k - 1] \o
               (IF received[k].tag = "Midi"
                THEN handle_midi_message(mapping, received[k].body, FALSE)[field]
                ELSE handle_osc_message(mapping, received[k].body)[field])
    IN  F[Len(received)]

\* C14: under every interleaving of the two producers the router receives
\* the messages of each source in that source's arrival order, takes one
\* message at a time, the oldest of the queue, and handles it to its end
\* before the next, so that the outputs appear in the order of the received
\* messages.
C14_SourceOrder ==
    /\ [](/\ IsPrefix(ReceivedOf("Midi"), SurfaceArrived)
          /\ IsPrefix(ReceivedOf("Osc"), NetworkArrived)
          /\ pc \in {"all_midi_off", "start"} =>
               /\ HandledOf("Midi") = SurfaceArrived
               /\ HandledOf("Osc") \o pending = NetworkArrived
          /\ osc_sent = OutputsOf("osc")
          /\ received # <<>> =>
               midi_sent = all_midi_off(mapping)
                           \o [k \in 1..Len(OutputsOf("midi")) |-> Lamp(OutputsOf("midi")[k].key,
                                                                        OutputsOf("midi")[k].vel)])
    /\ [][ received' # received =>
             /\ queue # <<>>
             /\ received' = Append(received, Head(queue))
             /\ msg' = Head(queue)
             /\ pc' = "start" => queue' = Tail(queue) ]_vars

\* the two messages of a bundle were received in their order, with a
\* surface message that arrived between them received between them
C14_Witness ==
    /\ pc = "start"
    /\ Len(received) = 3
    /\ received[1] = [tag |-> "Osc",
                      body |-> [addr |-> "/hog/status/led/maingo",
                                args |-> <<[type |-> "Float", val |-> [num |-> 1, den |-> 1]]>>]]
    /\ received[2] = [tag |-> "Midi", body |-> [type |-> "NoteOn", key |-> 16, vel |-> 127]]
    /\ received[3].tag = "Osc"
    /\ received[3].body.addr = "/hog/status/led/flashsomething"
    /\ osc_sent = <<Hardware("mainback", 1)>>
    /\ midi_sent = Append(all_midi_off(mapping), Lamp(0, 127))

\* the result of recv_from and decode_udp the listener took in this step
Taken == network'[Len(network')]

\* a datagram that failed to decode has been received
Malformed == \E k \in 1..Len(network) : network[k].result = "decode_err"

\* C15: a decode failure is reported and does not end the receive loop: the
\* step prints the error line and leaves the loop running, the queue and
\* the router untouched; a well-formed datagram taken after a malformed one
\* is decoded, and each of its messages is then enqueued, so that while the
\* process runs the loop is alive after every malformed datagram.
C15_DecodeError ==
    /\ []((pc \in {"all_midi_off", "start"} /\ network # <<>>
             /\ network[Len(network)].result = "decode_err") => listening)
    /\ [][ (network' # network /\ Taken.result = "decode_err") =>
             /\ stdout' = Append(stdout, [line |-> "Error receiving from socket",
                                          error |-> "decode"])
             /\ listening'
             /\ pending' = <<>>
             /\ queue' = queue
             /\ pc' = pc ]_vars
    /\ [][ (network' # network /\ Taken.result = "packet" /\ Malformed) =>
             /\ listening'
             /\ pending' = handle_osc_packet(Taken.packet) ]_vars
    /\ [][ (pending # <<>> /\ pending' # pending /\ pc' \in {"all_midi_off", "start"}) =>
             /\ queue' = Append(queue, Head(pending))
             /\ pending' = Tail(pending) ]_vars

\* a malformed datagram was reported, the LED status that came after it was
\* decoded, enqueued and handled
C15_Witness ==
    /\ pc = "start"
    /\ Len(network) = 2
    /\ network[1].result = "decode_err"
    /\ network[2].result = "packet"
    /\ stdout = <<[line |-> "Error receiving from socket", error |-> "decode"]>>
    /\ received = <<[tag |-> "Osc",
                     body |-> [addr |-> "/hog/status/led/maingo",
                               args |-> <<[type |-> "Float", val |-> [num |-> 1, den |-> 1]]>>]]>>
    /\ midi_sent = Append(all_midi_off(mapping), Lamp(0, 127))

\* C16: a failed send on either output is fatal: the step in which a send
\* fails ends the run (the router is not in its loop any more and the
\* queue is gone), once a send has failed the router is stopped, and a
\* stopped router takes no step, so no event queued then produces output.
C16_SendFailureFatal ==
    /\ [](send_failed => (pc = "panicked" /\ queue = <<>>))
    /\ [](pc = "panicked" => ~ENABLED Next)
    /\ [][ (send_failed' /\ ~send_failed) => (pc' = "panicked" /\ queue' = <<>>) ]_vars
    /\ [][ pc = "panicked" =>
             (midi_sent' = midi_sent /\ osc_sent' = osc_sent /\ received' = received) ]_vars

\* the send of the network message for the first of two surface events
\* failed: the router stopped and the second event was never received
C16_Witness ==
    /\ pc = "panicked"
    /\ send_failed
    /\ Len(SurfaceArrived) = 2
    /\ received = <<[tag |-> "Midi", body |-> [type |-> "NoteOn", key |-> 16, vel |-> 127]]>>
    /\ osc_sent = <<Hardware("mainback", 1)>>
    /\ midi_sent = all_midi_off(mapping)

\* the positions of the messages inside a packet: the path of indices that
\* leads from the packet, through its bundles, to the message
RECURSIVE LeafPaths(_)
LeafPaths(p) ==
    IF p.kind = "Message" THEN {<<>>}
    ELSE UNION { {<<k>> \o q : q \in LeafPaths(p.content[k])} : k \in 1..Len(p.content) }

\* the message at a position of a packet
RECURSIVE LeafAt(_, _)
LeafAt(p, path) ==
    IF path = <<>> THEN p.msg ELSE LeafAt(p.content[Head(path)], Tail(path))

\* position a comes before position b depth first, left to right: at the
\* first index where they part, a goes left of b
ComesBefore(a, b) ==
    \E k \in 1..Len(a) :
        /\ k <= Len(b)
        /\ a[k] < b[k]
        /\ \A j \in 1..(k - 1) : a[j] = b[j]

\* the packet the listener decoded
Decoded == network[1].packet

\* C17: for a packet of any shape, a single message or bundles nested in
\* bundles, the messages that have entered the queue followed by those
\* still to be sent are the messages of the packet, each exactly once, in
\* depth-first left-to-right order; every send of the listener appends one
\* of them, and nothing but messages is ever enqueued.
C17_DepthFirst ==
    /\ [](LET all == queue \o pending
          IN  /\ Len(all) = Cardinality(LeafPaths(Decoded))
              /\ \A path \in LeafPaths(Decoded) :
                   all[1 + Cardinality({q \in LeafPaths(Decoded) : ComesBefore(q, path)})]
                     = [tag |-> "Osc", body |-> LeafAt(Decoded, path)])
    /\ [][ queue' # queue =>
             /\ queue' = Append(queue, Head(pending))
             /\ pending' = Tail(pending) ]_vars

\* a bundle holding a bundle of one message and, after it, a message: the
\* nested message was enqueued first, the bundles were not enqueued
C17_Witness ==
    LET go == [addr |-> "/hog/status/led/maingo",
               args |-> <<[type |-> "Float", val |-> [num |-> 1, den |-> 1]]>>]
        time == [addr |-> "/hog/status/time", args |-> <<>>]
    IN  /\ Decoded = [kind |-> "Bundle",
                      content |-> << [kind |-> "Bundle",
                                      content |-> <<[kind |-> "Message", msg |-> time]>>],
                                     [kind |-> "Message", msg |-> go] >>]
        /\ queue = <<[tag |-> "Osc", body |-> time], [tag |-> "Osc", body |-> go]>>
        /\ pending = <<>>

\* a note-on on channel 0 for the note of a registry button, with that
\* button's vel_off or vel_on
IsRegistryLamp(e) ==
    /\ e.channel = 0
    /\ e.message.type = "NoteOn"
    /\ \E b \in ButtonSet :
         /\ e.message.key = b.note
         /\ e.message.vel \in {b.vel_off, b.vel_on}

\* C18: every message on the surface output is a note-on on channel 0 for
\* the note of some registry button b with velocity b.vel_off or b.vel_on;
\* a dequeued event adds at most one message to the two outputs together,
\* a surface event adds none to the surface output and a network event
\* none to the network output.
C18_OutputShape ==
    /\ [](\A k \in 1..Len(midi_sent) : IsRegistryLamp(midi_sent[k]))
    /\ [][ Dequeued =>
             /\ IsPrefix(midi_sent, midi_sent')
             /\ IsPrefix(osc_sent, osc_sent')
             /\ (Len(midi_sent') - Len(midi_sent)) + (Len(osc_sent') - Len(osc_sent)) <= 1
             /\ Received.tag = "Midi" => midi_sent' = midi_sent
             /\ Received.tag = "Osc" => osc_sent' = osc_sent ]_vars

\* the LED status of "maingo" with the argument 0.0 was handled: one lamp
\* command for note 0 with its vel_off 3 was added, nothing on the network
C18_Witness ==
    /\ msg = [tag |-> "Osc",
              body |-> [addr |-> "/hog/status/led/maingo",
                        args |-> <<[type |-> "Float", val |-> [num |-> 0, den |-> 1]]>>]]
    /\ midi_sent = Append(all_midi_off(mapping), Lamp(0, 3))
    /\ osc_sent = <<>>

\* C19: every pad of the registry can be lit by the console: for every
\* button b, the dequeued LED status "/hog/status/led/<b.name>" with the
\* float argument 1.0 adds a lamp command whose key is b.note.
C19_EveryPadLit ==
    [][ \A b \in ButtonSet :
          (/\ Dequeued
           /\ IsLed(b.name)
           /\ Received.body.args = <<[type |-> "Float", val |-> [num |-> 1, den |-> 1]]>>) =>
          /\ Len(midi_sent') = Len(midi_sent) + 1
          /\ midi_sent'[Len(midi_sent')].message.type = "NoteOn"
          /\ midi_sent'[Len(midi_sent')].message.key = b.note ]_vars

\* the listener's loop has ended on a recv error and the process is running
ListenerEnded == pc = "start" /\ ~listening

\* C20: a receive error on the network socket ends only the loop of the
\* network producer: the step reports the error and leaves the router and
\* the queue as they are; afterwards the router waiting on an empty queue
\* keeps waiting, the surface callback still enqueues its channel-0
\* events, and the router translates the surface events it dequeues as before.
C20_RecvError ==
    /\ [][ (network' # network /\ Taken.result = "recv_err") =>
             /\ stdout' = Append(stdout, [line |-> "Error receiving from socket",
                                          error |-> "recv"])
             /\ ~listening'
             /\ pending' = <<>>
             /\ pc' = pc
             /\ queue' = queue ]_vars
    /\ [][ ~listening => network' = network ]_vars
    /\ [][ (ListenerEnded /\ queue = <<>>) => pc' = "start" ]_vars
    /\ [][ (ListenerEnded /\ surface' # surface
              /\ Delivered.kind = "Midi" /\ Delivered.channel = 0) =>
             queue' = Append(queue, [tag |-> "Midi", body |-> Delivered.message]) ]_vars
    /\ [][ (ListenerEnded /\ Dequeued /\ Received.tag = "Midi") =>
             LET m == Received.body
                 buttons == {b \in ButtonSet : b.note = m.key}
             IN  IF m.type \in {"NoteOn", "NoteOff"} /\ buttons # {}
                 THEN \E b \in buttons :
                        osc_sent' = Append(osc_sent,
                                           Hardware(b.name, IF m.type = "NoteOn" THEN 1 ELSE 0))
                 ELSE IF m.type = "Controller" /\ m.controller \in 48..56
                 THEN osc_sent' = Append(osc_sent,
                                         Hardware("fader/" \o ToString(m.controller - 47),
                                                  m.value * 2 + (m.value \div 64)))
                 ELSE osc_sent' = osc_sent /\ Continues ]_vars

\* the only datagram result was a recv error, which was reported; the
\* router then received the note-on for note 16 and sent the mainback press
C20_Witness ==
    /\ ListenerEnded
    /\ network = <<[result |-> "recv_err"]>>
    /\ stdout = <<[line |-> "Error receiving from socket", error |-> "recv"]>>
    /\ received = <<[tag |-> "Midi", body |-> [type |-> "NoteOn", key |-> 16, vel |-> 127]]>>
    /\ osc_sent = <<Hardware("mainback", 1)>>

====
